---- MODULE Spec2Model ----
(***************************************************************************)
(* A model of src/experiments/experiments.py (class Experiments): the      *)
(* sequential orchestration of train / evaluate over a list of             *)
(* experiments, the loss retrieval and figure pipeline of plot_losses,     *)
(* and the numeric helpers _smooth_curve and the per-epoch reshape.        *)
(*                                                                         *)
(* External collaborators (Experiment.train / evaluate, torch, the         *)
(* CheckpointUtils search and merge, AlignmentStats, ConsoleLogger,        *)
(* matplotlib) are not modelled by what they compute but by the calls the  *)
(* code makes to them: every call is appended to `log`, every saved       *)
(* figure to `figures`.  A call into a collaborator may return or raise.   *)
(***************************************************************************)
EXTENDS Integers, Sequences, FiniteSets, TLC

----------------------------------------------------------------------------
(* Bounds of the model *)

MaxExperiments == 3
MaxSeed == 2
MaxCurveLen == 205
MaxEpochs == 3
MaxPlotExperiments == 2
MaxCheckpoints == 2
MaxPlotCurveLen == 10

Names == {"a", "b"}
Paths == {"p", "q"}
Seeds == 1..MaxSeed

\* an Experiment, as far as Experiments reads it: .name and .results_path
ExperimentSet == [name : Names, results_path : Paths]

ExperimentLists == UNION {[1..n -> ExperimentSet] : n \in 0..MaxExperiments}

\* evaluation_options, as far as Experiments reads it
EvaluationOptions == [compute_clustering_metrics_evolution : BOOLEAN]

----------------------------------------------------------------------------
VARIABLES
    experiments,          \* self._experiments
    seed,                 \* self._seed
    pc,                   \* position of the running method
    i,                    \* loop index (1-based) of the running loop
    log,                  \* calls made to collaborators so far, in order
    evaluation_options,   \* argument of evaluate
    curve_values,         \* _smooth_curve: the curve it is given
    window_length,        \* _smooth_curve: the window it passes to savgol_filter
    smoothed_curve,       \* _smooth_curve: what it returns
    latest_epoch,         \* the number of checkpoint files of the curve's experiment
    matrix                \* the per-epoch matrix np.reshape returns

curveVars == <<curve_values, window_length, smoothed_curve, latest_epoch, matrix>>

VARIABLES
    all_train_losses,        \* plot_losses: per retained experiment, its losses dict
    all_train_perplexities,  \* plot_losses: per retained experiment, its perplexities
    all_results_paths,       \* plot_losses: per retained experiment, its results path
    all_experiments_names,   \* plot_losses: per retained experiment, its name
    all_latest_epochs,       \* plot_losses: per retained experiment, its epoch count
    figures,                 \* the figures saved so far (fig.savefig), in order
    error                    \* the exception plot_losses has raised, "" if none

plotVars == <<all_train_losses, all_train_perplexities, all_results_paths,
              all_experiments_names, all_latest_epochs, figures, error>>

vars == <<experiments, seed, pc, i, log, evaluation_options, curveVars, plotVars>>

\* plot_losses is not running
NoPlot ==
    /\ all_train_losses = <<>>
    /\ all_train_perplexities = <<>>
    /\ all_results_paths = <<>>
    /\ all_experiments_names = <<>>
    /\ all_latest_epochs = <<>>
    /\ figures = <<>>
    /\ error = ""

\* no curve is being processed
NoCurve ==
    /\ curve_values = <<>>
    /\ window_length = 0
    /\ smoothed_curve = <<>>
    /\ latest_epoch = 0
    /\ matrix = <<>>

NoOptions == [compute_clustering_metrics_evolution |-> FALSE]

\* Experiments.__init__
Init ==
    /\ experiments \in ExperimentLists
    /\ seed \in Seeds
    /\ pc = "idle"
    /\ i = 0
    /\ log = <<>>
    /\ evaluation_options = NoOptions
    /\ NoCurve
    /\ NoPlot

\* Experiments.set_deterministic_on(seed): the four seedings and the cudnn flag
set_deterministic_on(s) == [call |-> "set_deterministic_on", seed |-> s]

----------------------------------------------------------------------------
(* Experiments.train *)

\* line 51
TrainBegin ==
    /\ pc = "idle"
    /\ log' = Append(log, set_deterministic_on(seed))
    /\ i' = 1
    /\ pc' = "train_loop"
    /\ UNCHANGED <<curveVars, plotVars, experiments, seed, evaluation_options>>

\* line 53-54: the for loop takes the next experiment and calls its train
TrainCall ==
    /\ pc = "train_loop"
    /\ i <= Len(experiments)
    /\ log' = Append(log, [call |-> "train", exp |-> i, name |-> experiments[i].name])
    /\ pc' = "training"
    /\ UNCHANGED <<curveVars, plotVars, experiments, seed, i, evaluation_options>>

\* mutant of TrainReturn: the next experiment is taken without releasing the cache
TrainReturn_NoCacheRelease ==
    /\ pc = "training"
    /\ log' = Append(log, [call |-> "train_returned", exp |-> i])
    /\ i' = i + 1
    /\ pc' = "train_loop"
    /\ UNCHANGED <<curveVars, plotVars, experiments, seed, evaluation_options>>

\* experiment.train() returns
TrainReturn ==
    /\ pc = "training"
    /\ log' = Append(log, [call |-> "train_returned", exp |-> i])
    /\ pc' = "train_cache"
    /\ UNCHANGED <<curveVars, plotVars, experiments, seed, i, evaluation_options>>

\* experiment.train() raises: nothing in train catches it
TrainRaise ==
    /\ pc = "training"
    /\ pc' = "train_raised"
    /\ UNCHANGED <<curveVars, plotVars, experiments, seed, i, log, evaluation_options>>

\* line 55
TrainEmptyCache ==
    /\ pc = "train_cache"
    /\ log' = Append(log, [call |-> "empty_cache", exp |-> i])
    /\ i' = i + 1
    /\ pc' = "train_loop"
    /\ UNCHANGED <<curveVars, plotVars, experiments, seed, evaluation_options>>

\* the for loop is exhausted: train returns
TrainDone ==
    /\ pc = "train_loop"
    /\ i > Len(experiments)
    /\ pc' = "train_done"
    /\ UNCHANGED <<curveVars, plotVars, experiments, seed, i, log, evaluation_options>>

----------------------------------------------------------------------------
(* Experiments.evaluate *)

\* line 59
EvaluateBegin ==
    /\ pc = "idle"
    /\ evaluation_options' \in EvaluationOptions
    /\ log' = Append(log, set_deterministic_on(seed))
    /\ i' = 1
    /\ pc' = "eval_loop"
    /\ UNCHANGED <<curveVars, plotVars, experiments, seed>>

\* line 62-63
EvaluateCall ==
    /\ pc = "eval_loop"
    /\ i <= Len(experiments)
    /\ log' = Append(log, [call |-> "evaluate", exp |-> i, name |-> experiments[i].name,
                           options |-> evaluation_options])
    /\ pc' = "evaluating"
    /\ UNCHANGED <<curveVars, plotVars, experiments, seed, i, evaluation_options>>

EvaluateReturn ==
    /\ pc = "evaluating"
    /\ log' = Append(log, [call |-> "evaluate_returned", exp |-> i])
    /\ pc' = "eval_cache"
    /\ UNCHANGED <<curveVars, plotVars, experiments, seed, i, evaluation_options>>

EvaluateRaise ==
    /\ pc = "evaluating"
    /\ pc' = "eval_raised"
    /\ UNCHANGED <<curveVars, plotVars, experiments, seed, i, log, evaluation_options>>

\* line 64
EvaluateEmptyCache ==
    /\ pc = "eval_cache"
    /\ log' = Append(log, [call |-> "empty_cache", exp |-> i])
    /\ i' = i + 1
    /\ pc' = "eval_loop"
    /\ UNCHANGED <<curveVars, plotVars, experiments, seed, evaluation_options>>

\* line 67
ResultsPaths == {experiments[k].results_path : k \in 1..Len(experiments)}

\* mutant of PathsDiffer: the length of the list instead of the length of its set
PathsDiffer_ListLength == Len(experiments) # 1

\* line 68: len(set(all_results_paths)) != 1
PathsDiffer == Cardinality(ResultsPaths) # 1

\* mutant of AllExperimentsNames: the names in reverse list order
AllExperimentsNames_Reversed ==
    [k \in 1..Len(experiments) |-> experiments[Len(experiments) + 1 - k].name]

\* line 72
AllExperimentsNames == [k \in 1..Len(experiments) |-> experiments[k].name]

\* line 66-74, after the loop
EvaluateFinish ==
    /\ pc = "eval_loop"
    /\ i > Len(experiments)
    /\ IF evaluation_options.compute_clustering_metrics_evolution
       THEN IF PathsDiffer
            THEN log' = Append(log, [call |-> "error",
                     message |-> "All clustering metric results should be in the same result folder"])
            ELSE log' = Append(log, [call |-> "compute_clustering_metrics_evolution",
                     all_experiments_names |-> AllExperimentsNames,
                     result_path |-> experiments[1].results_path])
       ELSE log' = log
    /\ pc' = "eval_done"
    /\ UNCHANGED <<curveVars, plotVars, experiments, seed, i, evaluation_options>>

----------------------------------------------------------------------------
(* Properties of train and evaluate *)

IsPrefix(s, t) == Len(s) <= Len(t) /\ \A k \in 1..Len(s) : s[k] = t[k]

InTrain == pc \in {"train_loop", "training", "train_cache", "train_done", "train_raised"}
InEvaluate == pc \in {"eval_loop", "evaluating", "eval_cache", "eval_done", "eval_raised"}

\* the calls a complete run of train makes over n experiments: the seeding, then
\* for each experiment in list order its train, the return of it, the cache release
TrainTrace ==
    [p \in 1..(1 + 3 * Len(experiments)) |->
        IF p = 1 THEN [call |-> "set_deterministic_on", seed |-> seed]
        ELSE LET k == ((p - 2) \div 3) + 1
                 r == (p - 2) % 3
             IN  CASE r = 0 -> [call |-> "train", exp |-> k, name |-> experiments[k].name]
                   [] r = 1 -> [call |-> "train_returned", exp |-> k]
                   [] r = 2 -> [call |-> "empty_cache", exp |-> k]]

\* C1: train seeds first with the stored seed, then trains every experiment exactly
\* once in list order, releasing the cache after each train returns and before the
\* next train starts: at every moment the calls made are a prefix of that sequence,
\* an experiment is training (or its train has raised) exactly while the last call
\* is an unreturned train, and a train that returns normally has made all of them.
C1_TrainOrder ==
    InTrain =>
        /\ IsPrefix(log, TrainTrace)
        /\ Len(log) >= 1
        /\ (pc = "train_done" => log = TrainTrace)
        /\ (pc \in {"training", "train_raised"} <=> log[Len(log)].call = "train")
        /\ \A a, b \in 1..Len(log) :
              (a < b /\ log[a].call = "train" /\ log[b].call = "train") =>
                  /\ log[a].exp < log[b].exp
                  /\ \E r \in (a + 1)..(b - 1) :
                        /\ log[r] = [call |-> "train_returned", exp |-> log[a].exp]
                        /\ log[r + 1] = [call |-> "empty_cache", exp |-> log[a].exp]
                        /\ r + 1 < b

C1_Witness ==
    /\ pc = "train_done"
    /\ Len(experiments) = MaxExperiments
    /\ Len(log) = 1 + 3 * MaxExperiments

\* the calls the loop of evaluate makes over the experiments
EvaluateTrace ==
    [p \in 1..(1 + 3 * Len(experiments)) |->
        IF p = 1 THEN [call |-> "set_deterministic_on", seed |-> seed]
        ELSE LET k == ((p - 2) \div 3) + 1
                 r == (p - 2) % 3
             IN  CASE r = 0 -> [call |-> "evaluate", exp |-> k, name |-> experiments[k].name,
                                options |-> evaluation_options]
                   [] r = 1 -> [call |-> "evaluate_returned", exp |-> k]
                   [] r = 2 -> [call |-> "empty_cache", exp |-> k]]

ComputeCalls == {p \in 1..Len(log) : log[p].call = "compute_clustering_metrics_evolution"}
ErrorCalls == {p \in 1..Len(log) : log[p].call = "error"}
SeedCalls == {p \in 1..Len(log) : log[p].call = "set_deterministic_on"}

\* C2: evaluate seeds once, evaluates every experiment exactly once in list order
\* with the options it was given; the clustering-metrics evolution is computed at
\* most once, only after the last experiment's evaluate has returned, and with the
\* names of all experiments in list order and the results path of the first one.
C2_EvaluateOrder ==
    InEvaluate =>
        /\ IsPrefix(log, EvaluateTrace) \/ IsPrefix(EvaluateTrace, log)
        /\ Cardinality(SeedCalls) = 1
        /\ (pc = "eval_done" => IsPrefix(EvaluateTrace, log))
        /\ Cardinality(ComputeCalls) <= 1
        /\ \A p \in ComputeCalls :
              /\ p = Len(log)
              /\ p = Len(EvaluateTrace) + 1
              /\ pc = "eval_done"
              /\ Len(experiments) >= 1
              /\ log[p - 2] = [call |-> "evaluate_returned", exp |-> Len(experiments)]
              /\ Len(log[p].all_experiments_names) = Len(experiments)
              /\ \A k \in 1..Len(experiments) :
                    log[p].all_experiments_names[k] = experiments[k].name
              /\ log[p].result_path = experiments[1].results_path

C2_Witness ==
    /\ pc = "eval_done"
    /\ Len(experiments) = MaxExperiments
    /\ experiments[1].name # experiments[MaxExperiments].name
    /\ ComputeCalls # {}

DistinctPaths == {experiments[k].results_path : k \in 1..Len(experiments)}

\* C3: when evaluate has returned, the clustering-metrics evolution was computed
\* iff the option is set and the results paths form exactly one distinct value;
\* with the option set and any other number of distinct paths (several, or none
\* for an empty list) the error is logged instead, nothing is computed, evaluate
\* returns normally, and every experiment's evaluation is still in the record.
\* evaluate raises only out of an experiment's evaluate, never after the loop.
C3_ClusteringGuard ==
    /\ pc = "eval_done" =>
          /\ (ComputeCalls # {} <=>
                 (evaluation_options.compute_clustering_metrics_evolution
                    /\ Cardinality(DistinctPaths) = 1))
          /\ (ErrorCalls # {} <=>
                 (evaluation_options.compute_clustering_metrics_evolution
                    /\ Cardinality(DistinctPaths) # 1))
          /\ \A p \in ErrorCalls :
                /\ p = Len(log)
                /\ log[p].message = "All clustering metric results should be in the same result folder"
          /\ \A k \in 1..Len(experiments) :
                \E p \in 1..Len(log) : log[p] = [call |-> "evaluate_returned", exp |-> k]
    /\ pc = "eval_raised" => (i <= Len(experiments) /\ log[Len(log)].call = "evaluate")
    /\ (pc = "eval_loop" /\ i > Len(experiments)) => ENABLED EvaluateFinish

C3_Witness_SeveralPaths ==
    /\ pc = "eval_done"
    /\ evaluation_options.compute_clustering_metrics_evolution
    /\ Cardinality(DistinctPaths) = 2
    /\ ErrorCalls # {}
    /\ ComputeCalls = {}

----------------------------------------------------------------------------
(* Experiments._smooth_curve and the reshape into a per-epoch matrix *)

\* line 333
maximum_window_length == 201

\* line 336
polyorder == 7

\* mutant of smoothed_curve_len: an even length is rounded up instead of down
smoothed_curve_len_RoundUp(n) == IF n % 2 = 1 THEN n ELSE n + 1

\* line 334-335
smoothed_curve_len(n) == IF n % 2 = 1 THEN n ELSE n - 1

\* line 340: the window length passed to savgol_filter for a curve of length n
WindowLength(n) ==
    IF smoothed_curve_len(n) > maximum_window_length
    THEN maximum_window_length
    ELSE smoothed_curve_len(n)

\* scipy.signal.savgol_filter(x, window_length, polyorder), mode 'interp', raises
\* ValueError unless the window is a positive odd integer, larger than the
\* polynomial order and not larger than the curve
savgol_raises(n, w, order) ==
    \/ w < 1
    \/ w % 2 = 0
    \/ order >= w
    \/ w > n

\* what savgol_filter returns: a curve of the same length; output sample j is the
\* value at j of the polynomial fitted to the window of input samples centred on
\* j, or to the first (last) window of the curve for the samples nearer than half
\* a window to its start (end).  A smoothed sample is written as the index it
\* stands at and the window of input samples it is computed from.
savgol_filter(x, w, order) ==
    LET n == Len(x)
        h == w \div 2
        first(j) == IF j - h < 1 THEN 1 ELSE IF j + h > n THEN n - w + 1 ELSE j - h
    IN  [j \in 1..n |-> [at |-> j, lo |-> x[first(j)], hi |-> x[first(j) + w - 1]]]

\* np.reshape(a, (rows, cols)) raises ValueError unless rows * cols is the size of a
np_reshape_raises(n, rows, cols) == rows * cols # n

\* mutant of np_reshape: the matrix is filled column by column (Fortran order)
np_reshape_ColumnMajor(a, rows, cols) ==
    [r \in 1..rows |-> [c \in 1..cols |-> a[(c - 1) * rows + r]]]

\* np.reshape(a, (rows, cols)): row-major (C order)
np_reshape(a, rows, cols) ==
    [r \in 1..rows |-> [c \in 1..cols |-> a[(r - 1) * cols + c]]]

\* the curves: sample j of a curve is written j, the sample's place in the series
\* CheckpointUtils.merge_experiment_losses returned
Curves == {[j \in 1..n |-> j] : n \in 0..MaxCurveLen}

InitCurve ==
    /\ experiments = <<>>
    /\ seed = 1
    /\ pc = "curve"
    /\ i = 0
    /\ log = <<>>
    /\ evaluation_options = NoOptions
    /\ curve_values \in Curves
    /\ latest_epoch \in 1..MaxEpochs
    /\ window_length = 0
    /\ smoothed_curve = <<>>
    /\ matrix = <<>>
    /\ NoPlot

\* line 332-344
SmoothCurve ==
    /\ pc = "curve"
    /\ window_length' = WindowLength(Len(curve_values))
    /\ IF savgol_raises(Len(curve_values), window_length', polyorder)
       THEN /\ pc' = "smooth_raised"
            /\ smoothed_curve' = smoothed_curve
       ELSE /\ pc' = "smoothed"
            /\ smoothed_curve' = savgol_filter(curve_values, window_length', polyorder)
    /\ UNCHANGED <<plotVars, experiments, seed, i, log, evaluation_options,
                   curve_values, latest_epoch, matrix>>

\* line 186-188: np.reshape(s, (latest_epoch, s.shape[0] // latest_epoch))
ReshapeCurve ==
    /\ pc = "smoothed"
    /\ LET n == Len(smoothed_curve)
           cols == n \div latest_epoch
       IN  IF np_reshape_raises(n, latest_epoch, cols)
           THEN /\ pc' = "reshape_raised"
                /\ matrix' = matrix
           ELSE /\ pc' = "reshaped"
                /\ matrix' = np_reshape(smoothed_curve, latest_epoch, cols)
    /\ UNCHANGED <<plotVars, experiments, seed, i, log, evaluation_options,
                   curve_values, window_length, smoothed_curve, latest_epoch>>

NextCurve ==
    \/ SmoothCurve
    \/ ReshapeCurve

SpecCurve == InitCurve /\ [][NextCurve]_vars

Min(a, b) == IF a <= b THEN a ELSE b

\* C5: a smoothed series of length n of an experiment with E checkpoint files is
\* reshaped into a matrix of exactly E rows and k = n div E columns in which the
\* series element at index j (from 0) stands at row j div k, column j mod k, every
\* element once; when E does not divide n there is no matrix, the reshape raises.
C5_Reshape ==
    LET n == Len(smoothed_curve)
        E == latest_epoch
        k == n \div E
    IN  /\ pc = "reshaped" =>
              /\ n % E = 0
              /\ Len(matrix) = E
              /\ \A r \in 1..E : Len(matrix[r]) = k
              /\ \A j \in 0..(n - 1) :
                    matrix[(j \div k) + 1][(j % k) + 1] = smoothed_curve[j + 1]
              /\ \A r \in 1..E : \A c \in 1..k :
                    \E j \in 0..(n - 1) :
                        /\ r = (j \div k) + 1
                        /\ c = (j % k) + 1
                        /\ matrix[r][c].at = j + 1
        /\ pc = "reshape_raised" => (n % E # 0 /\ matrix = <<>>)

C5_Witness ==
    /\ pc = "reshaped"
    /\ latest_epoch = 3
    /\ Len(smoothed_curve) = 12
    /\ matrix[2][1].at = 5

\* C8: for a curve of length n >= 1 the window _smooth_curve passes to the filter
\* is min(201, n') with n' = n for odd n and n - 1 for even n: an odd integer,
\* at most 201, at most n, and 201 for every n >= 201.
C8_Window ==
    LET n == Len(curve_values)
        nOdd == IF n % 2 = 1 THEN n ELSE n - 1
    IN  (pc \in {"smoothed", "smooth_raised"} /\ n >= 1) =>
            /\ window_length = Min(201, nOdd)
            /\ window_length % 2 = 1
            /\ window_length <= 201
            /\ window_length <= n
            /\ (n >= 201 => window_length = 201)

C8_Witness ==
    /\ pc = "smoothed"
    /\ Len(curve_values) = 204
    /\ window_length = 201

----------------------------------------------------------------------------
(* Experiments.plot_losses: the retrieval of the losses *)

NamePool == <<"a", "b", "c", "d">>
PathPool == <<"p", "q", "r", "s">>

\* the experiment lists plot_losses is run on: distinct names (the keys of the
\* experiments file, line 394); one results path for all of them (line 398) or,
\* built by hand, one for each
PlotExperimentLists ==
    {[k \in 1..n |-> [name |-> NamePool[k],
                      results_path |-> IF own THEN PathPool[k] ELSE PathPool[1]]] :
        n \in 0..MaxPlotExperiments, own \in BOOLEAN}

\* what CheckpointUtils.search_configuration_and_checkpoints_files may return
SearchResults == [configuration_file : BOOLEAN, checkpoint_files : 0..MaxCheckpoints]

\* the key lists of the losses dict CheckpointUtils.merge_experiment_losses may return
LossKeyLists == {<<"loss">>, <<"loss", "vq_loss">>, <<"loss", "reconstruction_loss">>,
                 <<"loss", "vq_loss", "reconstruction_loss">>}

\* the lengths of the series it may return, from the longest the filter refuses
PlotCurveLens == (polyorder + 1)..MaxPlotCurveLen

\* a series of values merge_experiment_losses returned: the values are written as
\* what they are the values of (the experiment, the loss) and how many there are
Series(k, name, n) == [exp |-> k, loss |-> name, len |-> n]

\* the losses dict of experiment k: its items in key order
LossesDict(k, keys, n) == [j \in 1..Len(keys) |-> Series(k, keys[j], n)]

InitPlot ==
    /\ experiments \in PlotExperimentLists
    /\ seed = 1
    /\ pc = "idle"
    /\ i = 0
    /\ log = <<>>
    /\ evaluation_options = NoOptions
    /\ NoCurve
    /\ NoPlot

\* line 77-81
PlotBegin ==
    /\ pc = "idle"
    /\ all_train_losses' = <<>>
    /\ all_train_perplexities' = <<>>
    /\ all_results_paths' = <<>>
    /\ all_experiments_names' = <<>>
    /\ all_latest_epochs' = <<>>
    /\ i' = 1
    /\ pc' = "retrieve"
    /\ UNCHANGED <<curveVars, experiments, seed, log, evaluation_options, figures, error>>

\* line 92
FailedToRetreive(k) ==
    [call |-> "error", message |-> "Failed to retreive losses of experiment", name |-> experiments[k].name]

\* line 141
Search(k, found) ==
    [call |-> "search_configuration_and_checkpoints_files", name |-> experiments[k].name,
     found |-> found]

\* mutant of RetreiveRaises: the check of the checkpoint files is missing
RetreiveRaises_NoCheckpointCheck(found) == ~found.configuration_file

\* line 147-152: _retreive_losses_values raises ValueError before loading anything
RetreiveRaises(found) ==
    \/ ~found.configuration_file
    \/ found.checkpoint_files = 0

\* line 159
YamlLoad(k) == [call |-> "yaml.load", name |-> experiments[k].name]

\* line 165
MergeExperimentLosses(k, found) ==
    [call |-> "merge_experiment_losses", name |-> experiments[k].name,
     checkpoint_files |-> found.checkpoint_files]

\* line 171: len(checkpoint_files)
LatestEpoch(found) == found.checkpoint_files

\* line 83-92 with line 137-171: one iteration of the retrieval loop
RetreiveLosses ==
    /\ pc = "retrieve"
    /\ i <= Len(experiments)
    /\ \E found \in SearchResults :
          \/ /\ RetreiveRaises(found)
             /\ log' = log \o <<Search(i, found), FailedToRetreive(i)>>
             /\ UNCHANGED <<all_train_losses, all_train_perplexities, all_results_paths,
                            all_experiments_names, all_latest_epochs>>
          \/ /\ ~RetreiveRaises(found)
             \* the loading of the configuration or of the checkpoints raises
             /\ log' = log \o <<Search(i, found), YamlLoad(i), MergeExperimentLosses(i, found),
                                FailedToRetreive(i)>>
             /\ UNCHANGED <<all_train_losses, all_train_perplexities, all_results_paths,
                            all_experiments_names, all_latest_epochs>>
          \/ /\ ~RetreiveRaises(found)
             /\ \E keys \in LossKeyLists, n \in PlotCurveLens :
                   /\ all_train_losses' = Append(all_train_losses, LossesDict(i, keys, n))
                   /\ all_train_perplexities' =
                         Append(all_train_perplexities, Series(i, "perplexity", n))
             /\ all_results_paths' = Append(all_results_paths, experiments[i].results_path)
             /\ all_experiments_names' = Append(all_experiments_names, experiments[i].name)
             /\ all_latest_epochs' = Append(all_latest_epochs, LatestEpoch(found))
             /\ log' = log \o <<Search(i, found), YamlLoad(i), MergeExperimentLosses(i, found)>>
    /\ i' = i + 1
    /\ UNCHANGED <<curveVars, experiments, seed, pc, evaluation_options, figures, error>>

\* line 94-95: the loop is exhausted
RetreiveDone ==
    /\ pc = "retrieve"
    /\ i > Len(experiments)
    /\ i' = 1
    /\ pc' = "fig_each"
    /\ UNCHANGED <<curveVars, plotVars, experiments, seed, log, evaluation_options>>

----------------------------------------------------------------------------
(* Experiments.plot_losses: the figures *)

\* d[key] of a losses dict
Item(d, key) == d[CHOOSE j \in 1..Len(d) : d[j].loss = key]

\* line 338-342 for a series: the call _smooth_curve makes to the filter
SavgolCall(series) ==
    [call |-> "savgol_filter", exp |-> series.exp, loss |-> series.loss, len |-> series.len,
     window_length |-> WindowLength(series.len), polyorder |-> polyorder]

\* _smooth_curve raises what the filter raises
SmoothRaises(series) == savgol_raises(series.len, WindowLength(series.len), polyorder)

\* a curve of a figure: the smoothed series reshaped to rows x cols, and its label
Curve(series, rows, cols, label) ==
    [data |-> series, rows |-> rows, cols |-> cols, label |-> label]

\* line 179, 203
LossAndPerplexityFigure(k) ==
    LET E == all_latest_epochs[k]
        loss == Item(all_train_losses[k], "loss")
        perplexity == all_train_perplexities[k]
    IN  [path |-> all_results_paths[k],
         file |-> [stem |-> all_experiments_names[k], suffix |-> "_loss-and-perplexity.png"],
         group |-> "loss-and-perplexity",
         curves |-> <<Curve(loss, E, loss.len \div E, all_experiments_names[k]),
                      Curve(perplexity, E, perplexity.len \div E, all_experiments_names[k])>>]

\* line 176-206: one iteration of the loop of _plot_loss_and_perplexity_figures
PlotLossAndPerplexityFigure ==
    /\ pc = "fig_each"
    /\ i <= Len(all_experiments_names)
    /\ LET E == all_latest_epochs[i]
           loss == Item(all_train_losses[i], "loss")
           perplexity == all_train_perplexities[i]
       IN  IF SmoothRaises(loss)
           THEN /\ log' = Append(log, SavgolCall(loss))
                /\ error' = "ValueError: savgol_filter"
                /\ pc' = "plot_raised"
                /\ UNCHANGED <<i, figures>>
           ELSE IF SmoothRaises(perplexity)
           THEN /\ log' = log \o <<SavgolCall(loss), SavgolCall(perplexity)>>
                /\ error' = "ValueError: savgol_filter"
                /\ pc' = "plot_raised"
                /\ UNCHANGED <<i, figures>>
           ELSE IF \/ np_reshape_raises(loss.len, E, loss.len \div E)
                   \/ np_reshape_raises(perplexity.len, E, perplexity.len \div E)
           THEN /\ log' = log \o <<SavgolCall(loss), SavgolCall(perplexity)>>
                /\ error' = "ValueError: reshape"
                /\ pc' = "plot_raised"
                /\ UNCHANGED <<i, figures>>
           ELSE /\ log' = log \o <<SavgolCall(loss), SavgolCall(perplexity)>>
                /\ figures' = Append(figures, LossAndPerplexityFigure(i))
                /\ i' = i + 1
                /\ UNCHANGED <<pc, error>>
    /\ UNCHANGED <<curveVars, experiments, seed, evaluation_options, all_train_losses,
                   all_train_perplexities, all_results_paths, all_experiments_names,
                   all_latest_epochs>>

\* mutant of EpochsCheck: the epochs of the experiments are not compared
EpochsCheck_NoComparison ==
    IF Len(all_latest_epochs) = 0
    THEN "IndexError: list index out of range"
    ELSE ""

\* line 211-214 (and 255-258, 296-299): what the check of the epochs raises, "" if nothing
EpochsCheck ==
    IF Len(all_latest_epochs) = 0
    THEN "IndexError: list index out of range"
    ELSE IF \E k \in 2..Len(all_latest_epochs) : all_latest_epochs[k] # all_latest_epochs[1]
    THEN "ValueError: All experiments must have the same number of epochs to merge them"
    ELSE ""

\* np.asarray of a list of curves is a matrix only when the curves have one length
Ragged(curves) == \E a, b \in 1..Len(curves) : curves[a].len # curves[b].len

\* the smoothing calls of a list of series, in order
SavgolCalls(curves) == [j \in 1..Len(curves) |-> SavgolCall(curves[j])]

\* line 222-231: what smoothing and reshaping a list of series raises, "" if nothing
StackRaises(curves, E) ==
    IF \E j \in 1..Len(curves) : SmoothRaises(curves[j])
    THEN "ValueError: savgol_filter"
    ELSE IF Ragged(curves)
    THEN "IndexError: tuple index out of range"
    ELSE IF \E j \in 1..Len(curves) :
               np_reshape_raises(curves[j].len, E, curves[j].len \div E)
    THEN "ValueError: reshape"
    ELSE ""

AllLossSeries == [k \in 1..Len(all_train_losses) |-> Item(all_train_losses[k], "loss")]

\* line 216-218, 233-247
MergedLossAndPerplexityFigure ==
    LET E == all_latest_epochs[1]
    IN  [path |-> all_results_paths[1],
         file |-> [stem |-> "merged-loss-and-perplexity", suffix |-> ".png"],
         group |-> "merged-loss-and-perplexity",
         curves |->
            [k \in 1..Len(AllLossSeries) |->
                Curve(AllLossSeries[k], E, AllLossSeries[k].len \div E,
                      all_experiments_names[k])]
            \o
            [k \in 1..Len(all_train_perplexities) |->
                Curve(all_train_perplexities[k], E, all_train_perplexities[k].len \div E,
                      all_experiments_names[k])]]

\* the calls of line 223-224, loss and perplexity of each experiment in turn
MergedSavgolCalls ==
    [j \in 1..(2 * Len(all_train_perplexities)) |->
        IF j % 2 = 1 THEN SavgolCall(AllLossSeries[(j + 1) \div 2])
                     ELSE SavgolCall(all_train_perplexities[j \div 2])]

\* line 208-250: _plot_merged_losses_and_perplexities_figure
PlotMergedLossesAndPerplexitiesFigure ==
    /\ pc = "fig_each"
    /\ i > Len(all_experiments_names)
    /\ IF EpochsCheck # ""
       THEN /\ error' = EpochsCheck
            /\ pc' = "plot_raised"
            /\ UNCHANGED <<figures, log>>
       ELSE LET E == all_latest_epochs[1]
                raised == IF StackRaises(AllLossSeries, E) # ""
                          THEN StackRaises(AllLossSeries, E)
                          ELSE StackRaises(all_train_perplexities, E)
            IN  /\ log' = log \o MergedSavgolCalls
                /\ IF raised # ""
                   THEN /\ error' = raised
                        /\ pc' = "plot_raised"
                        /\ UNCHANGED figures
                   ELSE /\ figures' = Append(figures, MergedLossAndPerplexityFigure)
                        /\ pc' = "fig_all_losses"
                        /\ UNCHANGED error
    /\ UNCHANGED <<curveVars, experiments, seed, i, evaluation_options, all_train_losses,
                   all_train_perplexities, all_results_paths, all_experiments_names,
                   all_latest_epochs>>

RECURSIVE Flatten(_)
\* the items of a list of lists, in order
Flatten(ss) == IF ss = <<>> THEN <<>> ELSE Head(ss) \o Flatten(Tail(ss))

\* line 260, 272-288: the figure with every loss of retained experiment k
MergedLossesFigure(k) ==
    LET E == all_latest_epochs[1]
        d == all_train_losses[k]
    IN  [path |-> all_results_paths[1],
         file |-> [stem |-> all_experiments_names[k], suffix |-> "_merged-losses.png"],
         group |-> "merged-losses",
         curves |-> [j \in 1..Len(d) |-> Curve(d[j], E, d[j].len \div E, d[j].loss)]]

\* line 252-291: _plot_merged_all_losses_figures
PlotMergedAllLossesFigures ==
    /\ pc = "fig_all_losses"
    /\ IF EpochsCheck # ""
       THEN /\ error' = EpochsCheck
            /\ pc' = "plot_raised"
            /\ UNCHANGED <<figures, log>>
       ELSE LET E == all_latest_epochs[1]
                n == Len(all_train_losses)
                all == Flatten(all_train_losses)
                \* line 262-270: every loss of every experiment is smoothed first
                smoothRaises == \E j \in 1..Len(all) : SmoothRaises(all[j])
                \* line 277-278 raises for these experiments
                bad == {k \in 1..n : StackRaises(all_train_losses[k], E) # ""}
                saved == IF bad = {} THEN n
                         ELSE (CHOOSE k \in bad : \A b \in bad : k <= b) - 1
            IN  /\ log' = log \o SavgolCalls(all)
                /\ IF smoothRaises
                   THEN /\ error' = "ValueError: savgol_filter"
                        /\ pc' = "plot_raised"
                        /\ UNCHANGED figures
                   ELSE /\ figures' = figures \o [k \in 1..saved |-> MergedLossesFigure(k)]
                        /\ IF bad = {}
                           THEN pc' = "fig_loss_type" /\ UNCHANGED error
                           ELSE /\ pc' = "plot_raised"
                                /\ error' = StackRaises(all_train_losses[saved + 1], E)
    /\ UNCHANGED <<curveVars, experiments, seed, i, evaluation_options, all_train_losses,
                   all_train_perplexities, all_results_paths, all_experiments_names,
                   all_latest_epochs>>

\* line 304-307: the items of all experiments whose key is not 'loss', in the
\* order the loops visit them
TypedSeries == SelectSeq(Flatten(all_train_losses), LAMBDA x : x.loss # "loss")

RECURSIVE FirstOccurrences(_, _)
\* the keys of a dict filled in the order of `items`: every key where it first occurs
FirstOccurrences(items, j) ==
    IF j > Len(items) THEN <<>>
    ELSE (IF \E b \in 1..(j - 1) : items[b].loss = items[j].loss
          THEN <<>> ELSE <<items[j].loss>>) \o FirstOccurrences(items, j + 1)

\* line 312: all_train_losses_smooth.keys()
LossTypeNames == FirstOccurrences(TypedSeries, 1)

\* line 308-310: all_train_losses_smooth[loss_name]
SeriesOfType(loss_name) == SelectSeq(TypedSeries, LAMBDA x : x.loss = loss_name)

\* line 323: the label of curve j of a per-loss-type figure
CurveLabel(j, series) == all_experiments_names[j]

\* line 313-327: the figure of one loss name
LossTypeFigure(loss_name) ==
    LET E == all_latest_epochs[1]
        curves == SeriesOfType(loss_name)
    IN  [path |-> all_results_paths[1],
         file |-> [stem |-> loss_name, suffix |-> ".png"],
         group |-> "loss-type",
         curves |-> [j \in 1..Len(curves) |->
                        Curve(curves[j], E, curves[j].len \div E, CurveLabel(j, curves[j]))]]

\* line 293-330: _plot_merged_all_losses_type
PlotMergedAllLossesType ==
    /\ pc = "fig_loss_type"
    /\ IF EpochsCheck # ""
       THEN /\ error' = EpochsCheck
            /\ pc' = "plot_raised"
            /\ UNCHANGED <<figures, log>>
       ELSE LET E == all_latest_epochs[1]
                names == LossTypeNames
                smoothRaises == \E j \in 1..Len(TypedSeries) : SmoothRaises(TypedSeries[j])
                bad == {t \in 1..Len(names) : StackRaises(SeriesOfType(names[t]), E) # ""}
                saved == IF bad = {} THEN Len(names)
                         ELSE (CHOOSE t \in bad : \A b \in bad : t <= b) - 1
            IN  /\ log' = log \o SavgolCalls(TypedSeries)
                /\ IF smoothRaises
                   THEN /\ error' = "ValueError: savgol_filter"
                        /\ pc' = "plot_raised"
                        /\ UNCHANGED figures
                   ELSE /\ figures' = figures \o [t \in 1..saved |-> LossTypeFigure(names[t])]
                        /\ IF bad = {}
                           THEN pc' = "plot_done" /\ UNCHANGED error
                           ELSE /\ pc' = "plot_raised"
                                /\ error' = StackRaises(SeriesOfType(names[saved + 1]), E)
    /\ UNCHANGED <<curveVars, experiments, seed, i, evaluation_options, all_train_losses,
                   all_train_perplexities, all_results_paths, all_experiments_names,
                   all_latest_epochs>>

----------------------------------------------------------------------------
(* Properties of plot_losses *)

\* the experiments whose retrieval failure was logged
Failed ==
    {k \in 1..Len(experiments) :
        \E p \in 1..Len(log) : log[p].call = "error" /\ log[p].name = experiments[k].name}

\* the experiments whose losses were retained
Retained == {all_train_perplexities[k].exp : k \in 1..Len(all_train_perplexities)}

FiguresOf(group) == SelectSeq(figures, LAMBDA f : f.group = group)

\* C4: a failure to retrieve the losses of an experiment does not abort
\* plot_losses, for every subset of failing experiments: the failure is logged,
\* the experiment is in no figure, and plot_losses goes on to aggregate and plot
\* the others, so that it does not raise for want of the ones that failed.
C4_FailureDoesNotAbort ==
    /\ \A k \in Failed :
          /\ k \notin Retained
          /\ \A f \in 1..Len(figures) :
                /\ figures[f].file.stem # experiments[k].name
                /\ \A c \in 1..Len(figures[f].curves) :
                      /\ figures[f].curves[c].data.exp # k
                      /\ figures[f].curves[c].label # experiments[k].name
    /\ pc \in {"fig_each", "fig_all_losses", "fig_loss_type", "plot_done", "plot_raised"} =>
          Failed \cup Retained = 1..Len(experiments)
    /\ (pc = "plot_raised" /\ Failed # {}) => error # "IndexError: list index out of range"

GroupRank(group) ==
    CASE group = "loss-and-perplexity" -> 1
      [] group = "merged-loss-and-perplexity" -> 2
      [] group = "merged-losses" -> 3
      [] group = "loss-type" -> 4

EpochsMismatch ==
    \E k \in 1..Len(all_latest_epochs) : all_latest_epochs[k] # all_latest_epochs[1]

\* the per-experiment loss-and-perplexity figures of all retained experiments are saved
EachFigureSaved ==
    /\ pc \in {"fig_each", "fig_all_losses", "fig_loss_type", "plot_done", "plot_raised"}
    /\ Len(FiguresOf("loss-and-perplexity")) = Len(all_experiments_names)

\* C6: the figures are saved group after group: the per-experiment
\* loss-and-perplexity figures, the merged loss-and-perplexity figure, the
\* per-experiment all-losses figures, the per-loss-type figures; a plot_losses that
\* returns has saved all four groups.  If a retained experiment has another number
\* of epochs than the first, the merged step raises the ValueError before any
\* merged figure is saved, no figure of a later group is ever saved, and the
\* per-experiment figures saved before stay saved.
C6_FigureOrder ==
    /\ \A a, b \in 1..Len(figures) :
          a < b => GroupRank(figures[a].group) <= GroupRank(figures[b].group)
    /\ pc = "plot_done" =>
          /\ Len(FiguresOf("loss-and-perplexity")) = Len(all_experiments_names)
          /\ Len(FiguresOf("merged-loss-and-perplexity")) = 1
          /\ Len(FiguresOf("merged-losses")) = Len(all_experiments_names)
          /\ \A k \in 1..Len(all_experiments_names) :
                /\ figures[k].file.stem = all_experiments_names[k]
                /\ figures[Len(all_experiments_names) + 1 + k].file.stem = all_experiments_names[k]
    /\ pc \in {"fig_all_losses", "fig_loss_type"} =>
          Len(FiguresOf("merged-loss-and-perplexity")) = 1
    /\ EpochsMismatch =>
          /\ \A f \in 1..Len(figures) : figures[f].group = "loss-and-perplexity"
          /\ pc \notin {"fig_all_losses", "fig_loss_type", "plot_done"}
          /\ (EachFigureSaved /\ (pc # "fig_each" \/ i <= Len(all_experiments_names))) =>
                /\ pc = "plot_raised"
                /\ error = "ValueError: All experiments must have the same number of epochs to merge them"
                /\ Len(figures) = Len(all_experiments_names)

C6_Witness ==
    /\ pc = "plot_raised"
    /\ EpochsMismatch
    /\ error = "ValueError: All experiments must have the same number of epochs to merge them"
    /\ Len(figures) = 2

SearchCalls == {p \in 1..Len(log) : log[p].call = "search_configuration_and_checkpoints_files"}

\* C7: _retreive_losses_values raises when no configuration file is found and
\* when no checkpoint file is found, before anything is loaded (the failure is
\* logged right after the search); when it succeeds the epoch count it returns is
\* the number of checkpoint files found.  So every retained experiment has at
\* least one epoch, and every reshape divides by a number of rows >= 1.
C7_EpochsPositive ==
    /\ \A p \in SearchCalls :
          (~log[p].found.configuration_file \/ log[p].found.checkpoint_files = 0) =>
              /\ p + 1 <= Len(log)
              /\ log[p + 1].call = "error"
              /\ log[p + 1].name = log[p].name
              /\ \A k \in 1..Len(all_experiments_names) : all_experiments_names[k] # log[p].name
    /\ \A k \in 1..Len(all_latest_epochs) :
          /\ all_latest_epochs[k] >= 1
          /\ \E p \in SearchCalls :
                /\ log[p].name = all_experiments_names[k]
                /\ log[p].found.configuration_file
                /\ log[p].found.checkpoint_files = all_latest_epochs[k]
                /\ log[p + 1].call = "yaml.load"
                /\ log[p + 2].call = "merge_experiment_losses"
                /\ log[p + 2].checkpoint_files = all_latest_epochs[k]
    /\ \A f \in 1..Len(figures) : \A c \in 1..Len(figures[f].curves) :
          /\ figures[f].curves[c].rows >= 1
          /\ figures[f].curves[c].rows * figures[f].curves[c].cols = figures[f].curves[c].data.len

C7_Witness ==
    /\ pc = "plot_done"
    /\ Len(experiments) = 2
    /\ Len(all_latest_epochs) = 1
    /\ all_latest_epochs[1] = 2
    /\ \E p \in SearchCalls : log[p].found.configuration_file /\ log[p].found.checkpoint_files = 0

SavgolCallsMade == {p \in 1..Len(log) : log[p].call = "savgol_filter"}

\* C9: for every curve plot_losses passes to _smooth_curve the window given to the
\* filter is a positive integer strictly greater than the polynomial order 7, and
\* the smoothing never fails on account of the curve's length.
C9_WindowAboveOrder ==
    /\ \A p \in SavgolCallsMade :
          /\ log[p].window_length >= 1
          /\ log[p].window_length > 7
    /\ error # "ValueError: savgol_filter"

\* C10: when plot_losses has returned there is one per-loss-type figure for every
\* loss name other than 'loss' of at least one retained experiment, with one curve
\* for every experiment that has that loss name, and every curve has as label the
\* name of the experiment whose losses it was computed from.
C10_LossTypeLabels ==
    pc = "plot_done" =>
        LET typed == FiguresOf("loss-type")
        IN  /\ \A k \in 1..Len(all_train_losses) : \A j \in 1..Len(all_train_losses[k]) :
                  all_train_losses[k][j].loss # "loss" =>
                      /\ Cardinality({f \in 1..Len(typed) :
                              typed[f].file.stem = all_train_losses[k][j].loss}) = 1
                      /\ \A f \in 1..Len(typed) :
                            typed[f].file.stem = all_train_losses[k][j].loss =>
                                Cardinality({c \in 1..Len(typed[f].curves) :
                                    typed[f].curves[c].data = all_train_losses[k][j]}) = 1
            /\ \A f \in 1..Len(typed) : \A c \in 1..Len(typed[f].curves) :
                  /\ typed[f].curves[c].data.loss = typed[f].file.stem
                  /\ typed[f].curves[c].label = experiments[typed[f].curves[c].data.exp].name

\* the results path of the experiment of that name (names are distinct)
OwnPath(name) ==
    experiments[CHOOSE k \in 1..Len(experiments) : experiments[k].name = name].results_path

\* the figures of one experiment / of several experiments
SingleGroups == {"loss-and-perplexity", "merged-losses"}
MergedGroups == {"merged-loss-and-perplexity", "loss-type"}

\* C11: every figure plot_losses saves for a single experiment (its
\* '<name>_loss-and-perplexity.png' and its '<name>_merged-losses.png') is written
\* under that experiment's own results path, and every figure merging several
\* experiments ('merged-loss-and-perplexity.png', the '<loss_name>.png' figures)
\* is written under the results path of the first retained experiment.
C11_FigurePaths ==
    \A f \in 1..Len(figures) :
        /\ figures[f].group \in SingleGroups =>
              figures[f].path = OwnPath(figures[f].file.stem)
        /\ figures[f].group \in MergedGroups =>
              figures[f].path = all_results_paths[1]

----------------------------------------------------------------------------
Next ==
    \/ TrainBegin
    \/ TrainCall
    \/ TrainReturn
    \/ TrainRaise
    \/ TrainEmptyCache
    \/ TrainDone
    \/ EvaluateBegin
    \/ EvaluateCall
    \/ EvaluateReturn
    \/ EvaluateRaise
    \/ EvaluateEmptyCache
    \/ EvaluateFinish

Spec == Init /\ [][Next]_vars

NextPlot ==
    \/ PlotBegin
    \/ RetreiveLosses
    \/ RetreiveDone
    \/ PlotLossAndPerplexityFigure
    \/ PlotMergedLossesAndPerplexitiesFigure
    \/ PlotMergedAllLossesFigures
    \/ PlotMergedAllLossesType

SpecPlot == InitPlot /\ [][NextPlot]_vars

====
